---------------------------- MODULE Spec2Model ----------------------------
(***************************************************************************)
(* Model of src/order_server.py: a Flask webhook relay with a per-address  *)
(* sliding-window rate limiter, a bearer-token check, an order intake, a   *)
(* synchronous brew pipeline and a best-effort status publisher writing to *)
(* a remote key-value store.                                               *)
(*                                                                         *)
(* Each request is served by a worker (th[w]); a handler is a sequence of  *)
(* steps, one per place where the code reads or writes shared state        *)
(* (request_counts, the remote store) or blocks (time.sleep).  With one    *)
(* worker requests are handled one at a time; with two, the steps of two   *)
(* handlers interleave as the threads of Flask's development server do.    *)
(*                                                                         *)
(* Text is a sequence of symbols (words and separators), so that           *)
(* startswith, split and f-string formatting are computed, not assumed.    *)
(* The clock counts units of 1/TicksPerSecond of a second.                 *)
(***************************************************************************)
EXTENDS Integers, Sequences, FiniteSets, TLC

VARIABLES
    clock,                \* wall clock (datetime.now(), time.time()), in clock units
    request_counts,       \* request_counts: client address -> list of timestamps
    FIREBASE_AVAILABLE,   \* module global FIREBASE_AVAILABLE
    firebase_app,         \* module global firebase_app (TRUE: an app object, FALSE: None)
    store,                \* remote store: path -> last record written (db.reference(path).set)
    th,                   \* per worker: the request it serves and the handler's locals
    workers,              \* number of requests the server handles at a time
    traffic,              \* the requests the clients send: "any", "plain", "keyed",
                          \* "orders", "ids" or "flood"
    budget,               \* requests each client may still send, clock advances left,
                          \* whether a write to the remote store may raise
    admitted,             \* history: per client, the timestamps of its admitted requests
    issued                \* history: the order ids generated at line 166, with their time

vars == <<clock, request_counts, FIREBASE_AVAILABLE, firebase_app, store, th,
          workers, traffic, budget, admitted, issued>>

(***************************************************************************)
(* Bounds of the model                                                     *)
(***************************************************************************)
MaxRequests == 1          \* Spec: requests
MaxTicks == 1             \* Spec: clock advances
MaxRateRequests == 12     \* SpecRateLimit: requests of the busy client
MaxThreadedRequests == 2  \* SpecThreaded: requests
MaxIdRequests == 2        \* SpecOrderIds: requests
MaxFloodRequests == 11    \* SpecFlood: requests
MaxFineTicks == 3         \* SpecOrderIds: clock advances of one unit
TicksPerSecond == 2       \* resolution of the clock: units in a second

Threads == {1, 2}
Clients == {"10.0.0.1", "10.0.0.2"}
BusyClient == "10.0.0.1"

(***************************************************************************)
(* Program constants                                                       *)
(***************************************************************************)
MAX_REQUESTS_PER_MINUTE == 10
WindowSeconds == 60                  \* timedelta(minutes=1)
Window == WindowSeconds * TicksPerSecond   \* the same, in clock units

\* the clock advances by half a window at a time, so that a recorded request
\* is seen inside the window, at its edge and outside it
TickSeconds == WindowSeconds \div 2
API_KEY == <<"secret">>              \* the configured secret, one word

(***************************************************************************)
(* JSON values.  Every value is a record of the same shape so that values  *)
(* of different JSON types can be compared.                                *)
(***************************************************************************)
Absent == [t |-> "absent", s |-> <<>>, n |-> 0, a |-> <<>>]
JStr(s) == [t |-> "str", s |-> s, n |-> 0, a |-> <<>>]
JNum(n) == [t |-> "num", s |-> <<>>, n |-> n, a |-> <<>>]
JArr(a) == [t |-> "arr", s |-> <<>>, n |-> 0, a |-> a]

\* items of an orders array: a JSON object (with or without "name") or a scalar
Drink(name) == [obj |-> TRUE, hasname |-> TRUE, name |-> name]
NoNameDrink == [obj |-> TRUE, hasname |-> FALSE, name |-> <<>>]
ScalarItem == [obj |-> FALSE, hasname |-> FALSE, name |-> <<>>]

\* str(v), as an f-string renders a value
Str(v) == IF v.t = "str" THEN v.s
          ELSE IF v.t = "num" THEN <<ToString(v.n)>>
          ELSE IF v.t = "arr" THEN <<"[...]">>
          ELSE <<"None">>

\* dict.get(key, default) on a parsed JSON object
Get(data, key, default) == IF data[key].t = "absent" THEN default ELSE data[key]

(***************************************************************************)
(* Inputs                                                                  *)
(***************************************************************************)
NoHeader == [present |-> FALSE, text |-> <<>>]
Hdr(text) == [present |-> TRUE, text |-> text]
PlainHeaders == { NoHeader,
                  Hdr(<<"Bearer", " ", "wrong">>),
                  Hdr(<<"Bearer", " ", "secret">>) }
Headers == { NoHeader,
             Hdr(<<>>),
             Hdr(<<"Bearer">>),
             Hdr(<<"Basic", " ", "secret">>),
             Hdr(<<"Bearer", " ", "secret">>),
             Hdr(<<"Bearer", " ", "wrong">>),
             Hdr(<<"Bearer", " ">>),
             Hdr(<<"Bearer", " ", " ", "secret">>),
             Hdr(<<"Bearer", " ", "secret", " ", "extra">>) }

\* A request body as request.get_json() sees it: json is "none" (no JSON
\* body), "null", "array" (a non-empty JSON array) or "object".
Body(json, userId, orderId, orders, orderCount, totalValue, number, status, message) ==
    [json |-> json, userId |-> userId, orderId |-> orderId, orders |-> orders,
     orderCount |-> orderCount, totalValue |-> totalValue, number |-> number,
     status |-> status, message |-> message]
Plain(json) == Body(json, Absent, Absent, Absent, Absent, Absent, Absent, Absent, Absent)
OrderBody(userId, orderId, orders, orderCount, totalValue) ==
    Body("object", userId, orderId, orders, orderCount, totalValue, Absent, Absent, Absent)

U1 == JStr(<<"u1">>)
IdA == JStr(<<"A">>)
Latte == Drink(<<"Latte">>)
Espresso == Drink(<<"Espresso">>)

NonObjectBodies == { Plain("none"), Plain("null"), Plain("array") }
EmptyObject == Plain("object")
OrderBodies ==
    { EmptyObject,
      OrderBody(Absent, Absent, JArr(<<Latte, Espresso>>), Absent, Absent),
      OrderBody(U1, IdA, JArr(<<Latte>>), JNum(1), JNum(5)),
      OrderBody(U1, IdA, Absent, JNum(1), JNum(5)),
      OrderBody(U1, IdA, JArr(<<Latte, ScalarItem>>), JNum(2), JNum(9)),
      OrderBody(U1, Absent, JNum(5), Absent, Absent),
      OrderBody(Absent, JNum(7), JStr(<<"a", "b">>), Absent, Absent),
      OrderBody(Absent, IdA, JArr(<<NoNameDrink>>), Absent, Absent),
      OrderBody(Absent, Absent, JArr(<<>>), JNum(3), Absent),
      OrderBody(Absent, Absent, JArr(<<ScalarItem>>), Absent, Absent) }
SubmitBodies ==
    { EmptyObject,
      Body("object", U1, IdA, Absent, Absent, Absent, JNum(42), Absent, Absent),
      Body("object", Absent, Absent, Absent, Absent, Absent, JNum(42), Absent, Absent) }
TestBodies ==
    { EmptyObject,
      Body("object", U1, Absent, Absent, Absent, Absent, Absent, Absent, Absent) }
StatusBodies ==
    { EmptyObject,
      Body("object", Absent, Absent, Absent, Absent, Absent, Absent,
           JStr(<<"ready">>), JStr(<<"Pick", " ", "up">>)) }
BodiesOf(ep) == NonObjectBodies \cup
                (CASE ep = "order" -> OrderBodies
                   [] ep = "submit" -> SubmitBodies
                   [] ep = "test" -> TestBodies
                   [] OTHER -> StatusBodies)
\* plain traffic: JSON null, one well-formed body per route and, for an
\* order, one whose orders value is no list
PlainBodiesOf(ep) ==
    { Plain("null") } \cup
    (CASE ep = "order" ->
            { OrderBody(U1, IdA, JArr(<<Latte>>), JNum(1), JNum(5)),
              OrderBody(U1, IdA, JNum(5), Absent, Absent) }
       [] ep = "submit" ->
            { Body("object", U1, IdA, Absent, Absent, Absent, JNum(42), Absent, Absent) }
       [] ep = "test" ->
            { Body("object", U1, Absent, Absent, Absent, Absent, Absent, Absent, Absent) }
       [] OTHER ->
            { Body("object", Absent, Absent, Absent, Absent, Absent, Absent,
                   JStr(<<"ready">>), JStr(<<"Pick", " ", "up">>)) })

\* the <user_id> and <order_id> segments of a /status URL
PathOrderIds == { <<"A">>, <<"Z">> }
PlainPathOrderIds == { <<"A">> }

RateLimitedEndpoints == {"order", "submit", "test"}
Endpoints == RateLimitedEndpoints \cup {"status", "health"}


(***************************************************************************)
(* Workers                                                                 *)
(***************************************************************************)
NoResp == [code |-> 0, order_id |-> Absent, order_count |-> Absent,
           total_value |-> Absent, success |-> "none"]
Resp(code) == [NoResp EXCEPT !.code = code]

EmptyWindows == [c \in Clients |-> <<>>]

IdleThread ==
    [pc |-> "idle", ep |-> "none", ip |-> "none",
     now |-> 0,               \* is_rate_limited: now
     tmp |-> <<>>,            \* is_rate_limited: the filtered list before it is stored
     rc0 |-> EmptyWindows,    \* history: request_counts when the request arrived
     limited |-> "none",      \* is_rate_limited's return value
     hdr |-> NoHeader,        \* the request's Authorization header
     body |-> Plain("none"),  \* the request body
     user_id |-> Absent, order_id |-> Absent, orders |-> Absent,
     i |-> 0,                 \* trigger_coffee_machine: items already brewed
     exc |-> <<>>,            \* trigger_coffee_machine: str(e) of the caught exception
     log |-> <<>>,            \* history: the send_status_to_app calls of this request
     found |-> Absent,        \* history: the status the last call found under its key
     ret |-> "none",          \* return value of the last send_status_to_app call
     attempts |-> 0,          \* history: ref.set calls made for this request
     failed |-> 0,            \* history: ref.set calls of this request that raised
     resp |-> NoResp]         \* the HTTP response, once produced

Busy == {w \in Threads : th[w].pc # "idle"}

(***************************************************************************)
(* is_rate_limited (lines 62-77)                                           *)
(***************************************************************************)
\* Prune, keeping the request made exactly a minute ago
PruneInclusive(window, now) ==
    SelectSeq(window, LAMBDA req_time : req_time >= now - Window)

\* line 68-69: the requests newer than a minute ago, in order
Prune(window, now) ==
    SelectSeq(window, LAMBDA req_time : req_time > now - Window)

\* line 72
AtLimit(window) == Len(window) >= MAX_REQUESTS_PER_MINUTE

(***************************************************************************)
(* The Authorization check (lines 142-150, 205-213, 264-272, 303-309)      *)
(***************************************************************************)
RECURSIVE SplitAcc(_, _, _)
SplitAcc(text, cur, acc) ==
    IF text = <<>> THEN Append(acc, cur)
    ELSE IF Head(text) = " " THEN SplitAcc(Tail(text), <<>>, Append(acc, cur))
    ELSE SplitAcc(Tail(text), Append(cur, Head(text)), acc)

\* str.split(' ')
Split(text) == SplitAcc(text, <<>>, <<>>)

\* str.startswith('Bearer ')
StartsWithBearer(text) == Len(text) >= 2 /\ text[1] = "Bearer" /\ text[2] = " "

\* not auth_header or not auth_header.startswith('Bearer ')
HeaderRejected(h) == ~h.present \/ h.text = <<>> \/ ~StartsWithBearer(h.text)

\* auth_header.split(' ')[1]
ProvidedKey(h) == Split(h.text)[2]

\* Authenticated, without the comparison with API_KEY
AuthenticatedAnyKey(h) == ~HeaderRejected(h)

Authenticated(h) == ~HeaderRejected(h) /\ ProvidedKey(h) = API_KEY

\* verify_firebase_ip (lines 79-93): allows every address
verify_firebase_ip(ip) == TRUE

(***************************************************************************)
(* send_status_to_app (lines 95-120).  ok says whether the write to the    *)
(* remote store goes through or raises.  The result holds the return       *)
(* value, the store afterwards and the number of ref.set calls made.       *)
(***************************************************************************)
StoreConfigured == FIREBASE_AVAILABLE /\ firebase_app

\* StatusPath, with the two components swapped
StatusPathSwapped(user_id, order_id) ==
    <<"order_status", "/">> \o Str(order_id) \o <<"/">> \o Str(user_id)

\* f'order_status/{user_id}/{order_id}'
StatusPath(user_id, order_id) ==
    <<"order_status", "/">> \o Str(user_id) \o <<"/">> \o Str(order_id)

\* status_data, without its timestamp (the time of the call), which the
\* server never reads back
StatusData(order_id, status, message) ==
    [orderId |-> order_id, status |-> status, message |-> message,
     source |-> "coffee-server"]

\* send_status_to_app, without the check of FIREBASE_AVAILABLE and firebase_app
send_status_unguarded(user_id, order_id, status, message, ok) ==
    IF ok
    THEN [ret |-> "True",
          store |-> (StatusPath(user_id, order_id) :> StatusData(order_id, status, message))
                    @@ store,
          attempts |-> 1, failed |-> 0]
    ELSE [ret |-> "False", store |-> store, attempts |-> 1, failed |-> 1]

\* send_status_to_app, writing a second time when the first write raises
send_status_retrying(user_id, order_id, status, message, ok) ==
    IF ~StoreConfigured
    THEN [ret |-> "False", store |-> store, attempts |-> 0, failed |-> 0]
    ELSE IF ok
    THEN [ret |-> "True",
          store |-> (StatusPath(user_id, order_id) :> StatusData(order_id, status, message))
                    @@ store,
          attempts |-> 1, failed |-> 0]
    ELSE [ret |-> "False", store |-> store, attempts |-> 2, failed |-> 1]

\* send_status_to_app, keeping the record a key already holds
send_status_first_wins(user_id, order_id, status, message, ok) ==
    IF ~StoreConfigured
    THEN [ret |-> "False", store |-> store, attempts |-> 0, failed |-> 0]
    ELSE IF ok
    THEN [ret |-> "True",
          store |-> store
                    @@ (StatusPath(user_id, order_id) :> StatusData(order_id, status, message)),
          attempts |-> 1, failed |-> 0]
    ELSE [ret |-> "False", store |-> store, attempts |-> 1, failed |-> 1]

send_status_to_app(user_id, order_id, status, message, ok) ==
    IF ~StoreConfigured
    THEN [ret |-> "False", store |-> store, attempts |-> 0, failed |-> 0]
    ELSE IF ok
    THEN [ret |-> "True",
          store |-> (StatusPath(user_id, order_id) :> StatusData(order_id, status, message))
                    @@ store,
          attempts |-> 1, failed |-> 0]
    ELSE [ret |-> "False", store |-> store, attempts |-> 1, failed |-> 1]

\* what a write to the remote store may do: go through (TRUE) or raise (FALSE)
WriteOutcomes == IF budget.flaky THEN BOOLEAN ELSE {TRUE}

Event(user_id, order_id, status, message) ==
    [user_id |-> user_id, order_id |-> order_id, status |-> status,
     message |-> message, path |-> StatusPath(user_id, order_id)]

\* history: the status the store holds under a key
Found(user_id, order_id) ==
    IF StatusPath(user_id, order_id) \in DOMAIN store
    THEN store[StatusPath(user_id, order_id)].status ELSE Absent

\* the worker's locals after a send_status_to_app call returned r
Sent(t, user_id, order_id, status, message, r) ==
    [t EXCEPT !.log = Append(@, Event(user_id, order_id, status, message)),
              !.found = Found(user_id, order_id),
              !.ret = r.ret,
              !.attempts = @ + r.attempts,
              !.failed = @ + r.failed]

(***************************************************************************)
(* The clock and the arrival of requests                                   *)
(***************************************************************************)
\* The clock advances, by half a window or by one unit.
Tick ==
    /\ \E fine \in BOOLEAN :
          IF fine
          THEN /\ budget.fine > 0
               /\ clock' = clock + 1
               /\ budget' = [budget EXCEPT !.fine = @ - 1]
          ELSE /\ budget.ticks > 0
               /\ clock' = clock + TickSeconds * TicksPerSecond
               /\ budget' = [budget EXCEPT !.ticks = @ - 1]
    /\ UNCHANGED <<request_counts, FIREBASE_AVAILABLE, firebase_app, store, th,
                   workers, traffic, admitted, issued>>

FreeWorker(w) ==
    /\ th[w].pc = "idle"
    /\ Cardinality(Busy) < workers
    /\ \A v \in Threads : v < w => th[v].pc # "idle"

\* The Authorization headers a client may send with its next request.  In
\* "flood" traffic a client sends all its requests but the last without the
\* right key, and the last one with it.
RequestHeaders(ip) ==
    IF traffic = "any" THEN Headers
    ELSE IF traffic = "keyed" THEN {h \in PlainHeaders : Authenticated(h)}
    ELSE IF traffic = "flood"
    THEN IF budget.requests[ip] > 1
         THEN {h \in PlainHeaders : ~Authenticated(h)}
         ELSE {h \in PlainHeaders : Authenticated(h)}
    ELSE PlainHeaders

\* A POST to a rate-limited route arrives with its Authorization header: the
\* handler calls is_rate_limited, which reads the clock (lines 137, 64-65).
Receive(w) ==
    /\ FreeWorker(w)
    /\ \E ep \in RateLimitedEndpoints, ip \in Clients :
       \E h \in RequestHeaders(ip) :
          /\ budget.requests[ip] > 0
          /\ budget' = [budget EXCEPT !.requests[ip] = @ - 1]
          /\ th' = [th EXCEPT ![w] = [IdleThread EXCEPT !.pc = "rl_filter", !.ep = ep,
                                         !.ip = ip, !.hdr = h, !.now = clock,
                                         !.rc0 = request_counts]]
    /\ UNCHANGED <<clock, request_counts, FIREBASE_AVAILABLE, firebase_app, store,
                   workers, traffic, admitted, issued>>

\* ReceiveStatus, with the handler calling is_rate_limited first
ReceiveStatusLimited(w) ==
    /\ FreeWorker(w)
    /\ \E ip \in Clients :
       \E h \in RequestHeaders(ip) :
          /\ budget.requests[ip] > 0
          /\ budget' = [budget EXCEPT !.requests[ip] = @ - 1]
          /\ th' = [th EXCEPT ![w] = [IdleThread EXCEPT !.pc = "rl_filter", !.ep = "status",
                                         !.ip = ip, !.hdr = h, !.now = clock,
                                         !.rc0 = request_counts]]
    /\ UNCHANGED <<clock, request_counts, FIREBASE_AVAILABLE, firebase_app, store,
                   workers, traffic, admitted, issued>>

\* A POST to /status/<user_id>/<order_id> arrives (line 299): no rate limiting.
ReceiveStatus(w) ==
    /\ FreeWorker(w)
    /\ \E ip \in Clients :
       \E h \in RequestHeaders(ip) :
          /\ budget.requests[ip] > 0
          /\ budget' = [budget EXCEPT !.requests[ip] = @ - 1]
          /\ th' = [th EXCEPT ![w] = [IdleThread EXCEPT !.pc = "auth", !.ep = "status",
                                         !.ip = ip, !.hdr = h,
                                         !.rc0 = request_counts]]
    /\ UNCHANGED <<clock, request_counts, FIREBASE_AVAILABLE, firebase_app, store,
                   workers, traffic, admitted, issued>>

\* GET /health (lines 122-131)
health_check(w) ==
    /\ FreeWorker(w)
    /\ \E ip \in Clients :
          /\ budget.requests[ip] > 0
          /\ budget' = [budget EXCEPT !.requests[ip] = @ - 1]
          /\ th' = [th EXCEPT ![w] = [IdleThread EXCEPT !.pc = "done", !.ep = "health",
                                         !.ip = ip, !.rc0 = request_counts,
                                         !.resp = Resp(200)]]
    /\ UNCHANGED <<clock, request_counts, FIREBASE_AVAILABLE, firebase_app, store,
                   workers, traffic, admitted, issued>>

\* The response has been sent; the worker is free again.
Retire(w) ==
    /\ th[w].pc = "done"
    /\ th' = [th EXCEPT ![w] = IdleThread]
    /\ UNCHANGED <<clock, request_counts, FIREBASE_AVAILABLE, firebase_app, store,
                   workers, traffic, budget, admitted, issued>>

(***************************************************************************)
(* is_rate_limited, step by step                                           *)
(***************************************************************************)
\* line 68, right-hand side: the filtered list is built
is_rate_limited_filter(w) ==
    /\ th[w].pc = "rl_filter"
    /\ th' = [th EXCEPT ![w].tmp = Prune(request_counts[th[w].ip], th[w].now),
                        ![w].pc = "rl_store"]
    /\ UNCHANGED <<clock, request_counts, FIREBASE_AVAILABLE, firebase_app, store,
                   workers, traffic, budget, admitted, issued>>

\* line 68, the assignment: request_counts[ip_address] = <filtered list>
is_rate_limited_store(w) ==
    /\ th[w].pc = "rl_store"
    /\ request_counts' = [request_counts EXCEPT ![th[w].ip] = th[w].tmp]
    /\ th' = [th EXCEPT ![w].tmp = <<>>, ![w].pc = "rl_check"]
    /\ UNCHANGED <<clock, FIREBASE_AVAILABLE, firebase_app, store, workers, traffic,
                   budget, admitted, issued>>

\* is_rate_limited_check, recording the request before it is rejected
is_rate_limited_check_recording(w) ==
    /\ th[w].pc = "rl_check"
    /\ IF AtLimit(request_counts[th[w].ip])
       THEN /\ th' = [th EXCEPT ![w].limited = "True", ![w].resp = Resp(429),
                                ![w].pc = "done"]
            /\ request_counts' = [request_counts EXCEPT ![th[w].ip] = Append(@, th[w].now)]
       ELSE /\ th' = [th EXCEPT ![w].pc = "rl_append"]
            /\ request_counts' = request_counts
    /\ UNCHANGED <<clock, FIREBASE_AVAILABLE, firebase_app, store,
                   workers, traffic, budget, admitted, issued>>

\* lines 72-73 and 137-139: at the limit, return True; the handler answers 429
is_rate_limited_check(w) ==
    /\ th[w].pc = "rl_check"
    /\ IF AtLimit(request_counts[th[w].ip])
       THEN th' = [th EXCEPT ![w].limited = "True", ![w].resp = Resp(429),
                             ![w].pc = "done"]
       ELSE th' = [th EXCEPT ![w].pc = "rl_append"]
    /\ UNCHANGED <<clock, request_counts, FIREBASE_AVAILABLE, firebase_app, store,
                   workers, traffic, budget, admitted, issued>>

\* lines 76-77: record the request, return False
is_rate_limited_append(w) ==
    /\ th[w].pc = "rl_append"
    /\ request_counts' = [request_counts EXCEPT ![th[w].ip] = Append(@, th[w].now)]
    /\ admitted' = [admitted EXCEPT ![th[w].ip] = Append(@, th[w].now)]
    /\ th' = [th EXCEPT ![w].limited = "False", ![w].pc = "auth"]
    /\ UNCHANGED <<clock, FIREBASE_AVAILABLE, firebase_app, store, workers, traffic,
                   budget, issued>>

(***************************************************************************)
(* The API key check of the four POST handlers                             *)
(***************************************************************************)
\* verify_api_key, taking a request answered 401 out of its client's window
verify_api_key_forgiving(w) ==
    /\ th[w].pc = "auth"
    /\ LET h == th[w].hdr
           window == request_counts[th[w].ip]
       IN IF Authenticated(h)
          THEN /\ th' = [th EXCEPT ![w].pc = "json"]
               /\ request_counts' = request_counts
          ELSE /\ th' = [th EXCEPT ![w].pc = "done", ![w].resp = Resp(401)]
               /\ request_counts' =
                     [request_counts EXCEPT ![th[w].ip] =
                         IF th[w].limited = "False" /\ window # <<>>
                         THEN SubSeq(window, 1, Len(window) - 1) ELSE window]
    /\ UNCHANGED <<clock, FIREBASE_AVAILABLE, firebase_app, store,
                   workers, traffic, budget, admitted, issued>>

verify_api_key(w) ==
    /\ th[w].pc = "auth"
    /\ LET h == th[w].hdr
       IN /\ IF Authenticated(h)
                /\ (th[w].ep \in {"order", "test"} => verify_firebase_ip(th[w].ip))
             THEN th' = [th EXCEPT ![w].pc = "json"]
             ELSE th' = [th EXCEPT ![w].pc = "done",
                                   ![w].resp = Resp(IF Authenticated(h) THEN 403 ELSE 401)]
    /\ UNCHANGED <<clock, request_counts, FIREBASE_AVAILABLE, firebase_app, store,
                   workers, traffic, budget, admitted, issued>>

(***************************************************************************)
(* request.get_json() and the values the handlers take from the body       *)
(***************************************************************************)
RequestBodies(ep) ==
    IF traffic = "any" \/ (traffic = "orders" /\ ep = "order") THEN BodiesOf(ep)
    ELSE IF traffic = "ids" /\ ep = "order"
    THEN PlainBodiesOf(ep) \cup { OrderBody(U1, Absent, JArr(<<Latte>>), JNum(1), JNum(5)) }
    ELSE PlainBodiesOf(ep)

\* What get_json() can do with a body: return the parsed value, return None
\* (JSON null, or a body that is not JSON under a Flask that lets that
\* pass) or raise (a body that is not JSON under a Flask that answers 415
\* or 400: an HTTPException, which the handlers' except Exception catches).
GetJsonOutcomes(b) ==
    IF b.json = "none" THEN {"None", "raise"}
    ELSE IF b.json = "null" THEN {"None"}
    ELSE {"data"}

\* `not data` for a parsed value: None and the empty object are falsy
Falsy(b, outcome) == outcome = "None" \/ b = EmptyObject

\* int(time.time()): the whole seconds of a clock reading
int_time(t) == t \div TicksPerSecond

\* GeneratedOrderId, from the clock rounded down to an even second
GeneratedOrderIdCoarse(t) == JStr(<<"order_", ToString(int_time(t) \div 2)>>)

\* f"order_{int(time.time())}"
GeneratedOrderId(t) == JStr(<<"order_", ToString(int_time(t))>>)

Unknown == JStr(<<"unknown">>)

\* len(orders) is defined for lists and strings
Sized(v) == v.t \in {"arr", "str"}
PyLen(v) == IF v.t = "arr" THEN Len(v.a) ELSE Len(v.s)
\* what enumerate(orders) yields: the items of a list, the characters of a string
Items(v) == IF v.t = "arr" THEN v.a ELSE [k \in 1..Len(v.s) |-> ScalarItem]

TypeName(v) == IF v.t = "num" THEN "int" ELSE IF v.t = "str" THEN "str"
               ELSE IF v.t = "arr" THEN "list" ELSE "NoneType"
NoLenMessage(v) == <<"object of type '", TypeName(v), "' has no len()">>
NoGetMessage == <<"'str' object has no attribute 'get'">>

\* ProgressMessage, counting the drinks from 0
ProgressMessageZeroBased(i, n) ==
    JStr(<<"Making drink ", ToString(i - 1), " of ", ToString(n)>>)
ProgressMessage(i, n) == JStr(<<"Making drink ", ToString(i), " of ", ToString(n)>>)
\* ErrorMessage, without str(e)
ErrorMessageGeneric(exc) == JStr(<<"Error: ">>)
ErrorMessage(exc) == JStr(<<"Error: ">> \o exc)
CompletedMessage(number) ==
    JStr(<<"Order completed! Number ">> \o Str(number) \o <<" displayed.">>)

S(word) == JStr(<<word>>)

(***************************************************************************)
(* order_notification (lines 133-194)                                      *)
(***************************************************************************)
\* lines 157-175: parse the body, take the order's fields, publish "preparing"
order_notification_intake(w) ==
    /\ th[w].pc = "json"
    /\ th[w].ep = "order"
    /\ \E b \in RequestBodies("order"), ok \in WriteOutcomes :
        \E o \in GetJsonOutcomes(b) :
          IF o = "raise" \/ (~Falsy(b, o) /\ b.json # "object")
          THEN /\ th' = [th EXCEPT ![w].body = b, ![w].pc = "done", ![w].resp = Resp(500)]
               /\ store' = store
               /\ issued' = issued
          ELSE IF Falsy(b, o)
          THEN /\ th' = [th EXCEPT ![w].body = b, ![w].pc = "done", ![w].resp = Resp(400)]
               /\ store' = store
               /\ issued' = issued
          ELSE LET user_id == Get(b, "userId", Unknown)
                   order_id == Get(b, "orderId", GeneratedOrderId(clock))
                   orders == Get(b, "orders", JArr(<<>>))
                   msg == S("Order received, starting preparation")
                   r == send_status_to_app(user_id, order_id, S("preparing"), msg, ok)
               IN /\ th' = [th EXCEPT ![w] =
                              [Sent(@, user_id, order_id, S("preparing"), msg, r)
                                 EXCEPT !.body = b, !.user_id = user_id,
                                        !.order_id = order_id, !.orders = orders,
                                        !.pc = "trigger"]]
                  /\ store' = r.store
                  /\ issued' = IF b.orderId.t = "absent"
                                THEN Append(issued, [t |-> clock, id |-> order_id])
                                ELSE issued
    /\ UNCHANGED <<clock, request_counts, FIREBASE_AVAILABLE, firebase_app, workers,
                   traffic, budget, admitted>>

\* lines 331-335: len(orders) for the log line, then publish "brewing"
trigger_coffee_machine_start(w) ==
    /\ th[w].pc = "trigger"
    /\ \E ok \in WriteOutcomes :
          IF ~Sized(th[w].orders)
          THEN /\ th' = [th EXCEPT ![w].exc = NoLenMessage(th[w].orders),
                                   ![w].pc = "error"]
               /\ store' = store
          ELSE LET msg == S("Coffee machine started")
                   r == send_status_to_app(th[w].user_id, th[w].order_id,
                                           S("brewing"), msg, ok)
               IN /\ th' = [th EXCEPT ![w] =
                              [Sent(@, th[w].user_id, th[w].order_id, S("brewing"), msg, r)
                                 EXCEPT !.i = 0, !.pc = "loop"]]
                  /\ store' = r.store
    /\ UNCHANGED <<clock, request_counts, FIREBASE_AVAILABLE, firebase_app, workers,
                   traffic, budget, admitted, issued>>

\* lines 340-344: the next item; order.get raises on an item that is no
\* object; otherwise the worker sleeps
trigger_coffee_machine_item(w) ==
    /\ th[w].pc = "loop"
    /\ th[w].i < PyLen(th[w].orders)
    /\ IF Items(th[w].orders)[th[w].i + 1].obj
       THEN th' = [th EXCEPT ![w].pc = "sleep"]
       ELSE th' = [th EXCEPT ![w].exc = NoGetMessage, ![w].pc = "error"]
    /\ UNCHANGED <<clock, request_counts, FIREBASE_AVAILABLE, firebase_app, store,
                   workers, traffic, budget, admitted, issued>>

\* line 347, after the sleep: publish the progress of this item
trigger_coffee_machine_progress(w) ==
    /\ th[w].pc = "sleep"
    /\ \E ok \in WriteOutcomes :
          LET msg == ProgressMessage(th[w].i + 1, PyLen(th[w].orders))
              r == send_status_to_app(th[w].user_id, th[w].order_id, S("brewing"), msg, ok)
          IN /\ th' = [th EXCEPT ![w] =
                         [Sent(@, th[w].user_id, th[w].order_id, S("brewing"), msg, r)
                            EXCEPT !.i = @ + 1, !.pc = "loop"]]
             /\ store' = r.store
    /\ UNCHANGED <<clock, request_counts, FIREBASE_AVAILABLE, firebase_app, workers,
                   traffic, budget, admitted, issued>>

\* trigger_coffee_machine_ready, with a write to the store that never returns
trigger_coffee_machine_ready_hanging(w) ==
    /\ th[w].pc = "loop"
    /\ th[w].i = PyLen(th[w].orders)
    /\ th' = [th EXCEPT ![w].pc = "hung"]
    /\ UNCHANGED <<clock, request_counts, FIREBASE_AVAILABLE, firebase_app, store,
                   workers, traffic, budget, admitted, issued>>

\* line 358, after the last item: publish "ready"
trigger_coffee_machine_ready(w) ==
    /\ th[w].pc = "loop"
    /\ th[w].i = PyLen(th[w].orders)
    /\ \E ok \in WriteOutcomes :
          LET msg == S("Order completed and ready for pickup")
              r == send_status_to_app(th[w].user_id, th[w].order_id, S("ready"), msg, ok)
          IN /\ th' = [th EXCEPT ![w] =
                         [Sent(@, th[w].user_id, th[w].order_id, S("ready"), msg, r)
                            EXCEPT !.pc = "respond"]]
             /\ store' = r.store
    /\ UNCHANGED <<clock, request_counts, FIREBASE_AVAILABLE, firebase_app, workers,
                   traffic, budget, admitted, issued>>

\* lines 362-365: the except branch publishes "error"
trigger_coffee_machine_error(w) ==
    /\ th[w].pc = "error"
    /\ \E ok \in WriteOutcomes :
          LET msg == ErrorMessage(th[w].exc)
              r == send_status_to_app(th[w].user_id, th[w].order_id, S("error"), msg, ok)
          IN /\ th' = [th EXCEPT ![w] =
                         [Sent(@, th[w].user_id, th[w].order_id, S("error"), msg, r)
                            EXCEPT !.pc = "respond"]]
             /\ store' = r.store
    /\ UNCHANGED <<clock, request_counts, FIREBASE_AVAILABLE, firebase_app, workers,
                   traffic, budget, admitted, issued>>

\* lines 181-190: send_notification only logs (and catches what len(orders)
\* raises); then the success response
order_notification_respond(w) ==
    /\ th[w].pc = "respond"
    /\ th' = [th EXCEPT ![w].pc = "done",
                        ![w].resp = [Resp(200) EXCEPT
                            !.order_id = th[w].order_id,
                            !.order_count = Get(th[w].body, "orderCount", JNum(0)),
                            !.total_value = Get(th[w].body, "totalValue", JNum(0))]]
    /\ UNCHANGED <<clock, request_counts, FIREBASE_AVAILABLE, firebase_app, store,
                   workers, traffic, budget, admitted, issued>>

(***************************************************************************)
(* submit_number (lines 215-253)                                           *)
(***************************************************************************)
submit_number(w) ==
    /\ th[w].pc = "json"
    /\ th[w].ep = "submit"
    /\ \E b \in RequestBodies("submit"), ok \in WriteOutcomes :
        \E o \in GetJsonOutcomes(b) :
          IF o = "raise" \/ (~Falsy(b, o) /\ b.json # "object")
          THEN /\ th' = [th EXCEPT ![w].body = b, ![w].pc = "done", ![w].resp = Resp(500)]
               /\ store' = store
          ELSE IF Falsy(b, o)
          THEN /\ th' = [th EXCEPT ![w].body = b, ![w].pc = "done", ![w].resp = Resp(400)]
               /\ store' = store
          ELSE LET user_id == Get(b, "userId", Unknown)
                   order_id == Get(b, "orderId", Unknown)
                   msg == CompletedMessage(Get(b, "number", Unknown))
                   r == send_status_to_app(user_id, order_id, S("completed"), msg, ok)
               IN /\ th' = [th EXCEPT ![w] =
                              [Sent(@, user_id, order_id, S("completed"), msg, r)
                                 EXCEPT !.body = b, !.user_id = user_id,
                                        !.order_id = order_id, !.pc = "done",
                                        !.resp = [Resp(200) EXCEPT !.order_id = order_id]]]
                  /\ store' = r.store
    /\ UNCHANGED <<clock, request_counts, FIREBASE_AVAILABLE, firebase_app, workers,
                   traffic, budget, admitted, issued>>

(***************************************************************************)
(* test_endpoint (lines 279-297)                                           *)
(***************************************************************************)
test_endpoint(w) ==
    /\ th[w].pc = "json"
    /\ th[w].ep = "test"
    /\ \E b \in RequestBodies("test"), ok \in WriteOutcomes :
        \E o \in GetJsonOutcomes(b) :
          IF o = "raise"
          THEN /\ th' = [th EXCEPT ![w].body = b, ![w].pc = "done", ![w].resp = Resp(500)]
               /\ store' = store
          ELSE IF FIREBASE_AVAILABLE /\ ~Falsy(b, o) /\ b.json = "object"
                  /\ b.userId.t # "absent"
          THEN LET msg == S("Test message from Railway server")
                   r == send_status_to_app(b.userId, S("test_order"), S("test"), msg, ok)
               IN /\ th' = [th EXCEPT ![w] =
                              [Sent(@, b.userId, S("test_order"), S("test"), msg, r)
                                 EXCEPT !.body = b, !.pc = "done", !.resp = Resp(200)]]
                  /\ store' = r.store
          ELSE /\ th' = [th EXCEPT ![w].body = b, ![w].pc = "done", ![w].resp = Resp(200)]
               /\ store' = store
    /\ UNCHANGED <<clock, request_counts, FIREBASE_AVAILABLE, firebase_app, workers,
                   traffic, budget, admitted, issued>>

(***************************************************************************)
(* update_order_status (lines 311-327)                                     *)
(***************************************************************************)
update_order_status(w) ==
    /\ th[w].pc = "json"
    /\ th[w].ep = "status"
    /\ \E b \in RequestBodies("status"), ok \in WriteOutcomes, seg \in (IF traffic = "any" THEN PathOrderIds ELSE PlainPathOrderIds) :
        \E o \in GetJsonOutcomes(b) :
          IF o = "raise" \/ o = "None" \/ b.json # "object"
          THEN /\ th' = [th EXCEPT ![w].body = b, ![w].pc = "done", ![w].resp = Resp(500)]
               /\ store' = store
          ELSE LET user_id == U1
                   order_id == JStr(seg)
                   status == Get(b, "status", Unknown)
                   msg == Get(b, "message", S("Status updated"))
                   r == send_status_to_app(user_id, order_id, status, msg, ok)
               IN /\ th' = [th EXCEPT ![w] =
                              [Sent(@, user_id, order_id, status, msg, r)
                                 EXCEPT !.body = b, !.user_id = user_id,
                                        !.order_id = order_id, !.pc = "done",
                                        !.resp = [Resp(200) EXCEPT !.success = r.ret]]]
                  /\ store' = r.store
    /\ UNCHANGED <<clock, request_counts, FIREBASE_AVAILABLE, firebase_app, workers,
                   traffic, budget, admitted, issued>>

(***************************************************************************)
(* Initial states and specifications                                       *)
(***************************************************************************)
\* lines 20-56: <<FIREBASE_AVAILABLE, firebase_app is set>> after start-up:
\* no SDK or initialisation failed; SDK but no service account; initialised
FirebaseSetups == { <<FALSE, FALSE>>, <<TRUE, FALSE>>, <<TRUE, TRUE>> }

Start(setups, nworkers, mix, flaky, busy, other, ticks, fine) ==
    /\ clock = 0
    /\ request_counts = EmptyWindows
    /\ \E f \in setups : FIREBASE_AVAILABLE = f[1] /\ firebase_app = f[2]
    /\ store = [k \in {} |-> 0]
    /\ th = [w \in Threads |-> IdleThread]
    /\ workers = nworkers
    /\ traffic = mix
    /\ budget = [requests |-> [c \in Clients |-> IF c = BusyClient THEN busy ELSE other],
                 ticks |-> ticks, fine |-> fine, flaky |-> flaky]
    /\ admitted = EmptyWindows
    /\ issued = <<>>

\* the clock advances it takes for a request to leave the window
WindowTicks == WindowSeconds \div TickSeconds
\* in the rate-limit runs every client but the busy one sends one request
OtherRequests == Cardinality(Clients \ {BusyClient})

\* one request at a time, any start-up outcome, any traffic
Init == Start(FirebaseSetups, 1, "any", TRUE, MaxRequests, 0, MaxTicks, 0)

\* one request at a time, no remote store, plain traffic, enough requests to
\* reach the limit and enough time to leave the window
InitRateLimit ==
    Start({f \in FirebaseSetups : ~f[1]}, 1, "plain", TRUE, MaxRateRequests,
          OtherRequests, WindowTicks, 0)

\* two requests at a time, a remote store whose writes go through, plain
\* traffic of clients that hold the key
InitThreaded ==
    Start({f \in FirebaseSetups : f[1] /\ f[2]}, Cardinality(Threads), "keyed", FALSE,
          MaxThreadedRequests, 0, WindowTicks \div 2, 0)

\* one request at a time, no remote store, orders with and without an
\* orderId, a clock that advances by less than a second
InitOrderIds ==
    Start({f \in FirebaseSetups : ~f[1]}, 1, "ids", TRUE, MaxIdRequests, 0, 0, MaxFineTicks)

\* one request at a time, no remote store, one client that sends its
\* requests without the right key and then one with it
InitFlood ==
    Start({f \in FirebaseSetups : ~f[1]}, 1, "flood", TRUE, MaxFloodRequests, 0,
          WindowTicks, 0)

\* one request at a time, any start-up outcome, plain headers, every order
InitLive == Start(FirebaseSetups, 1, "orders", TRUE, MaxRequests, 0, MaxTicks, 0)

Next ==
    \/ Tick
    \/ \E w \in Threads :
          \/ Receive(w)
          \/ ReceiveStatus(w)
          \/ health_check(w)
          \/ Retire(w)
          \/ is_rate_limited_filter(w)
          \/ is_rate_limited_store(w)
          \/ is_rate_limited_check(w)
          \/ is_rate_limited_append(w)
          \/ verify_api_key(w)
          \/ order_notification_intake(w)
          \/ trigger_coffee_machine_start(w)
          \/ trigger_coffee_machine_item(w)
          \/ trigger_coffee_machine_progress(w)
          \/ trigger_coffee_machine_ready(w)
          \/ trigger_coffee_machine_error(w)
          \/ order_notification_respond(w)
          \/ submit_number(w)
          \/ test_endpoint(w)
          \/ update_order_status(w)

\* the steps of the handler that worker w runs
Handle(w) ==
    \/ is_rate_limited_filter(w)
    \/ is_rate_limited_store(w)
    \/ is_rate_limited_check(w)
    \/ is_rate_limited_append(w)
    \/ verify_api_key(w)
    \/ order_notification_intake(w)
    \/ trigger_coffee_machine_start(w)
    \/ trigger_coffee_machine_item(w)
    \/ trigger_coffee_machine_progress(w)
    \/ trigger_coffee_machine_ready(w)
    \/ trigger_coffee_machine_error(w)
    \/ order_notification_respond(w)
    \/ submit_number(w)
    \/ test_endpoint(w)
    \/ update_order_status(w)

Spec == Init /\ [][Next]_vars
SpecRateLimit == InitRateLimit /\ [][Next]_vars
SpecThreaded == InitThreaded /\ [][Next]_vars
SpecOrderIds == InitOrderIds /\ [][Next]_vars
SpecFlood == InitFlood /\ [][Next]_vars

\* every handler that was started runs on: its thread is
\* scheduled again, time.sleep returns and so does every call to the store
SpecLive == InitLive /\ [][Next]_vars /\ \A w \in Threads : WF_vars(Handle(w))

(***************************************************************************)
(* Vocabulary of the properties                                            *)
(***************************************************************************)
\* the worker is past the Authorization check of its handler
PastAuth(t) ==
    /\ t.ep \in {"order", "submit", "test", "status"}
    /\ t.limited # "True"
    /\ t.pc \in {"json", "trigger", "loop", "sleep", "error", "respond", "done"}

\* the worker is past the intake of an /order-notification request
InPipeline(t) ==
    /\ t.ep = "order"
    /\ t.log # <<>> \/ t.pc \in {"trigger", "loop", "sleep", "error", "respond"}

\* <<status, message>> of each send_status_to_app call of a request, in order
Statuses(log) == [k \in 1..Len(log) |-> <<log[k].status.s, log[k].message.s>>]

IsPrefix(a, b) == Len(a) <= Len(b) /\ a = SubSeq(b, 1, Len(a))

\* every item of the orders value is a JSON object
WellFormedItems(orders) ==
    orders.t = "arr" /\ \A k \in 1..Len(orders.a) : orders.a[k].obj

EmptyStore == [k \in {} |-> 0]

(***************************************************************************)
(* C1                                                                      *)
(***************************************************************************)
BrewingEvents(n) ==
    [k \in 1..n |-> <<<<"brewing">>, <<"Making drink ", ToString(k), " of ", ToString(n)>>>>]
PreparingEvent == <<<<"preparing">>, <<"Order received, starting preparation">>>>
StartedEvent == <<<<"brewing">>, <<"Coffee machine started">>>>
ReadyEvent == <<<<"ready">>, <<"Order completed and ready for pickup">>>>

\* C1 as stated: an accepted order with N well-formed items has published
\* exactly preparing, brewing "Making drink i of N" for i = 1..N, ready.
C1_AsStated ==
    \A w \in Threads :
       (th[w].ep = "order" /\ th[w].pc = "done" /\ th[w].resp.code = 200
        /\ WellFormedItems(th[w].orders))
       => Statuses(th[w].log) =
            <<PreparingEvent>> \o BrewingEvents(Len(th[w].orders.a)) \o <<ReadyEvent>>

AmendedSequence(n) ==
    <<PreparingEvent, StartedEvent>> \o BrewingEvents(n) \o <<ReadyEvent>>

\* C1, amended: the send_status_to_app calls of an order with N well-formed
\* items are, at every moment, a prefix of: preparing, brewing "Coffee
\* machine started", brewing "Making drink i of N" for i = 1..N in
\* increasing i, ready; and they are that whole sequence when the request is
\* answered.  So ready never comes before the N brewing events.
C1_Amended ==
    \A w \in Threads :
       (InPipeline(th[w]) /\ WellFormedItems(th[w].orders))
       => /\ IsPrefix(Statuses(th[w].log), AmendedSequence(Len(th[w].orders.a)))
          /\ th[w].pc = "done" =>
                /\ th[w].resp.code = 200
                /\ Statuses(th[w].log) = AmendedSequence(Len(th[w].orders.a))

\* an answered order of two drinks
C1_Witness ==
    \E w \in Threads :
       /\ th[w].ep = "order" /\ th[w].pc = "done" /\ th[w].resp.code = 200
       /\ th[w].orders = JArr(<<Latte, Espresso>>)
       /\ Len(th[w].log) = 5

(***************************************************************************)
(* C2                                                                      *)
(***************************************************************************)
\* the admitted requests of a history that are less than a window old at now
Within(history, now) ==
    Cardinality({k \in 1..Len(history) :
                    history[k] <= now /\ now - history[k] < Window})

\* the client's admitted requests before the one worker w serves
AdmittedBefore(w) ==
    LET h == admitted[th[w].ip]
    IN IF th[w].limited = "False" THEN SubSeq(h, 1, Len(h) - 1) ELSE h

\* C2: with requests handled one at a time, a request is admitted when
\* fewer than 10 of the client's admitted requests are less than 60 seconds
\* old and rejected with 429 when 10 are; and the 11th admitted request of
\* a client always comes 60 seconds or more after the 1st of the 11.
C2_SlidingWindow ==
    workers = 1 =>
       /\ \A w \in Threads :
             th[w].limited # "none" =>
                LET n == Within(AdmittedBefore(w), th[w].now)
                IN /\ n <= MAX_REQUESTS_PER_MINUTE
                   /\ n < MAX_REQUESTS_PER_MINUTE => th[w].limited = "False"
                   /\ n = MAX_REQUESTS_PER_MINUTE =>
                         (th[w].limited = "True" /\ th[w].resp.code = 429)
       /\ \A c \in Clients :
             \A k \in 1..Len(admitted[c]) :
                k + MAX_REQUESTS_PER_MINUTE <= Len(admitted[c])
                => admitted[c][k + MAX_REQUESTS_PER_MINUTE] - admitted[c][k] >= Window

\* the last request of a client, admitted as its 11th a window after the
\* first ten were
C2_Witness ==
    \E w \in Threads :
       /\ th[w].limited = "False"
       /\ Len(admitted[th[w].ip]) = MAX_REQUESTS_PER_MINUTE + 1
       /\ budget.requests[th[w].ip] = 0
       /\ th[w].now = Window

(***************************************************************************)
(* C3                                                                      *)
(***************************************************************************)
RECURSIVE FirstWord(_)
FirstWord(text) ==
    IF text = <<>> \/ Head(text) = " " THEN <<>>
    ELSE <<Head(text)>> \o FirstWord(Tail(text))

\* no header, a header that does not start with "Bearer ", or a token (the
\* word that follows "Bearer ") that is not the configured secret
BadCredentials(h) ==
    \/ ~h.present
    \/ Len(h.text) < 2
    \/ SubSeq(h.text, 1, 2) # <<"Bearer", " ">>
    \/ FirstWord(SubSeq(h.text, 3, Len(h.text))) # <<"secret">>

\* C3: a request that passed the rate limiter (or needs none) with bad
\* credentials is answered 401, has called send_status_to_app never and has
\* run no step of the brew pipeline.
C3_Unauthorized ==
    \A w \in Threads :
       (PastAuth(th[w]) /\ BadCredentials(th[w].hdr))
       => /\ th[w].pc = "done"
          /\ th[w].resp.code = 401
          /\ th[w].log = <<>>
          /\ th[w].attempts = 0
          /\ th[w].orders = Absent

\* a request with a wrong token has been answered
C3_Witness ==
    \E w \in Threads :
       /\ PastAuth(th[w])
       /\ th[w].hdr = Hdr(<<"Bearer", " ", "wrong">>)
       /\ th[w].resp.code = 401

(***************************************************************************)
(* C4                                                                      *)
(***************************************************************************)
\* C4: an authenticated, admitted /order-notification request with the
\* payload {} is answered 200 with order_count 0, total_value 0 and a
\* generated, non-empty order_id.
C4_EmptyPayloadSucceeds ==
    \A w \in Threads :
       (th[w].ep = "order" /\ th[w].pc = "done" /\ th[w].limited = "False"
        /\ ~BadCredentials(th[w].hdr) /\ th[w].body = EmptyObject)
       => /\ th[w].resp.code = 200
          /\ th[w].resp.order_count = JNum(0)
          /\ th[w].resp.total_value = JNum(0)
          /\ th[w].resp.order_id.t = "str"
          /\ th[w].resp.order_id.s # <<>>

(***************************************************************************)
(* C5                                                                      *)
(***************************************************************************)
LastStatus(log) == log[Len(log)].status.s

\* C5: without a configured store every send_status_to_app call returns
\* False and no write is attempted, and an authenticated, admitted
\* /order-notification request whose payload is a non-empty object is
\* answered 200 after the pipeline reached ready or error.
C5_Unconfigured ==
    ~(FIREBASE_AVAILABLE /\ firebase_app) =>
       /\ store = EmptyStore
       /\ \A w \in Threads :
             /\ th[w].attempts = 0
             /\ th[w].ret # "True"
             /\ th[w].log # <<>> => th[w].ret = "False"
             /\ (th[w].ep = "order" /\ th[w].pc = "done" /\ th[w].limited = "False"
                 /\ ~BadCredentials(th[w].hdr)
                 /\ th[w].body.json = "object" /\ th[w].body # EmptyObject)
                => /\ th[w].resp.code = 200
                   /\ th[w].log # <<>>
                   /\ LastStatus(th[w].log) \in {<<"ready">>, <<"error">>}

\* an order of two drinks answered without a store
C5_Witness ==
    \E w \in Threads :
       /\ ~(FIREBASE_AVAILABLE /\ firebase_app)
       /\ th[w].ep = "order" /\ th[w].pc = "done" /\ th[w].resp.code = 200
       /\ Len(th[w].log) = 5 /\ th[w].ret = "False"

(***************************************************************************)
(* C6                                                                      *)
(***************************************************************************)
ErrorEvents(log) == {k \in 1..Len(log) : log[k].status.s = <<"error">>}

\* C6: once an exception was caught in trigger_coffee_machine, the request
\* publishes one error status, whose message carries str(e), as its last
\* status (no brewing or ready after it) and is answered 200; and an orders
\* value that is no list of objects does raise.
C6_PipelineError ==
    \A w \in Threads :
       /\ (th[w].ep = "order" /\ th[w].exc # <<>>)
          => /\ th[w].pc \in {"error", "respond", "done"}
             /\ th[w].pc = "error" => ErrorEvents(th[w].log) = {}
             /\ th[w].pc \in {"respond", "done"} =>
                   /\ ErrorEvents(th[w].log) = {Len(th[w].log)}
                   /\ th[w].log[Len(th[w].log)].message.s = <<"Error: ">> \o th[w].exc
             /\ th[w].pc = "done" => th[w].resp.code = 200
       /\ (InPipeline(th[w]) /\ th[w].pc = "done" /\ ~WellFormedItems(th[w].orders)
           /\ th[w].orders # JStr(<<>>))
          => th[w].exc # <<>>
       /\ (InPipeline(th[w]) /\ th[w].exc = <<>>) => ErrorEvents(th[w].log) = {}

\* an order whose second item is no object: answered 200 after preparing,
\* brewing (started), brewing (drink 1 of 2), error
C6_Witness ==
    \E w \in Threads :
       /\ th[w].ep = "order" /\ th[w].pc = "done" /\ th[w].resp.code = 200
       /\ th[w].orders = JArr(<<Latte, ScalarItem>>)
       /\ Len(th[w].log) = 4
       /\ LastStatus(th[w].log) = <<"error">>

(***************************************************************************)
(* C7                                                                      *)
(***************************************************************************)
RECURSIVE GoodItems(_)
\* the items of a list before its first item that is no object
GoodItems(items) ==
    IF items = <<>> \/ ~Head(items).obj THEN <<>>
    ELSE <<Head(items)>> \o GoodItems(Tail(items))

\* the statuses an accepted order goes through, whatever the store does
PipelineStatuses(orders) ==
    IF orders.t \notin {"arr", "str"}
    THEN <<<<"preparing">>, <<"error">>>>
    ELSE LET items == IF orders.t = "arr" THEN orders.a
                      ELSE [k \in 1..Len(orders.s) |-> ScalarItem]
             good == Len(GoodItems(items))
         IN <<<<"preparing">>, <<"brewing">>>> \o [k \in 1..good |-> <<"brewing">>]
            \o (IF good = Len(items) THEN <<<<"ready">>>> ELSE <<<<"error">>>>)

\* C7, the state part: a request makes at most one write attempt per
\* send_status_to_app call, and an answered order has gone through all its
\* statuses in order and is answered 200, whichever of its writes failed.
C7_PipelineCompletes ==
    \A w \in Threads :
       /\ th[w].attempts <= Len(th[w].log)
       /\ th[w].failed <= th[w].attempts
       /\ InPipeline(th[w]) =>
             /\ IsPrefix([k \in 1..Len(th[w].log) |-> th[w].log[k].status.s],
                         PipelineStatuses(th[w].orders))
             /\ th[w].pc = "done" =>
                   /\ th[w].resp.code = 200
                   /\ Len(th[w].log) = Len(PipelineStatuses(th[w].orders))

\* C7, the step part: a call whose write raises makes that one attempt,
\* returns False, leaves the store as it was and leaves the worker in its
\* handler (nothing propagates).
C7_FailedWrite ==
    \A w \in Threads :
       th'[w].failed > th[w].failed =>
          /\ th'[w].failed = th[w].failed + 1
          /\ th'[w].attempts = th[w].attempts + 1
          /\ Len(th'[w].log) = Len(th[w].log) + 1
          /\ th'[w].ret = "False"
          /\ store' = store
          /\ th'[w].resp.code \in {0, 200}

\* C7: a failing remote-store write never propagates and is never retried.
C7_BestEffort == [](C7_PipelineCompletes) /\ [][C7_FailedWrite]_vars

\* an order of two drinks answered 200 although writes failed, the last
\* write having gone through
C7_Witness ==
    \E w \in Threads :
       /\ th[w].ep = "order" /\ th[w].pc = "done" /\ th[w].resp.code = 200
       /\ th[w].failed >= 2 /\ th[w].ret = "True"
       /\ Len(th[w].log) = 5

(***************************************************************************)
(* C8                                                                      *)
(***************************************************************************)
RECURSIVE AfterSlashes(_, _)
\* what follows the n-th "/" of a path
AfterSlashes(path, n) ==
    IF n = 0 \/ path = <<>> THEN path
    ELSE AfterSlashes(Tail(path), IF Head(path) = "/" THEN n - 1 ELSE n)

\* the text of a supplied orderId: a string as it is, a number in decimal
IdText(v) == IF v.t = "str" THEN v.s ELSE <<ToString(v.n)>>

\* C8: when the body of an accepted order supplies orderId, every status
\* event of the request carries that value, is written under a path whose
\* last component is that value's text, and the 200 response returns it.
C8_OrderIdEchoed ==
    \A w \in Threads :
       (InPipeline(th[w]) /\ th[w].body.orderId.t # "absent")
       => /\ \A k \in 1..Len(th[w].log) :
                /\ th[w].log[k].order_id = th[w].body.orderId
                /\ AfterSlashes(th[w].log[k].path, 2) = IdText(th[w].body.orderId)
                /\ (StoreConfigured /\ th[w].log[k].path \in DOMAIN store)
                   => store[th[w].log[k].path].orderId = th[w].body.orderId
          /\ th[w].pc = "done" =>
                /\ th[w].resp.code = 200
                /\ th[w].resp.order_id = th[w].body.orderId

\* an answered order that supplied orderId "A" and wrote to the store
C8_Witness ==
    \E w \in Threads :
       /\ th[w].ep = "order" /\ th[w].pc = "done" /\ th[w].resp.code = 200
       /\ th[w].body.orderId = IdA
       /\ Len(th[w].log) >= 4
       /\ th[w].ret = "True"

(***************************************************************************)
(* C9                                                                      *)
(***************************************************************************)
\* C9: with requests handled one at a time, a rejected check leaves the
\* client's window as it was on arrival less the timestamps a minute old
\* or older, leaves the other clients' windows as they were and records no
\* admission.
C9_RejectionNotRecorded ==
    workers = 1 =>
       \A w \in Threads :
          th[w].limited = "True" =>
             /\ request_counts[th[w].ip] =
                   SelectSeq(th[w].rc0[th[w].ip],
                             LAMBDA x : th[w].now - x < Window)
             /\ Len(request_counts[th[w].ip]) = MAX_REQUESTS_PER_MINUTE
             /\ \A c \in Clients \ {th[w].ip} : request_counts[c] = th[w].rc0[c]
             /\ \A k \in 1..Len(admitted[th[w].ip]) :
                   admitted[th[w].ip][k] <= th[w].now =>
                      (th[w].now - admitted[th[w].ip][k] < Window
                       <=> admitted[th[w].ip][k] \in
                             {request_counts[th[w].ip][j] :
                                 j \in 1..Len(request_counts[th[w].ip])})

\* a rejection, half a window after the client's first admission, while
\* another client's window holds a timestamp
C9_Witness ==
    \E w \in Threads :
       /\ th[w].limited = "True"
       /\ th[w].resp.code = 429
       /\ th[w].now > th[w].rc0[th[w].ip][1]
       /\ \E c \in Clients \ {th[w].ip} : request_counts[c] # <<>>

(***************************************************************************)
(* C10                                                                     *)
(***************************************************************************)
\* C10: in every reachable state, also with interleaved handlers, each
\* client's recorded timestamps are non-decreasing in insertion order.
C10_WindowsSorted ==
    \A c \in Clients :
       \A j, k \in 1..Len(request_counts[c]) :
          j < k => request_counts[c][j] <= request_counts[c][k]

(***************************************************************************)
(* C11                                                                     *)
(***************************************************************************)
\* the one header of the shape `Bearer <token>` whose token is the secret
ExactHeader == Hdr(<<"Bearer", " ">> \o API_KEY)

\* C11: a request that reached the Authorization check goes on (is not
\* answered 401) if and only if its header is exactly "Bearer " followed by
\* the configured secret; every other header, one with text after the
\* token included, is answered 401.
C11_ExactShape ==
    \A w \in Threads :
       PastAuth(th[w]) =>
          /\ th[w].hdr = ExactHeader <=> th[w].resp.code # 401
          /\ th[w].hdr # ExactHeader => th[w].pc = "done"

(***************************************************************************)
(* C12                                                                     *)
(***************************************************************************)
\* C12: the response to an accepted order does not wait for the brew
\* pipeline: while the pipeline of an accepted order is at work (an item is
\* being brewed, or ready or error is still to be published) the success
\* response has already been produced.
C12_ResponseNeverWaits ==
    \A w \in Threads :
       (InPipeline(th[w]) /\ th[w].pc \in {"trigger", "loop", "sleep", "error"})
       => th[w].resp.code = 200

(***************************************************************************)
(* C14                                                                     *)
(***************************************************************************)
\* C14: an authenticated, admitted /order-notification or /submit-number
\* request that carries no JSON body is answered 400, has called
\* send_status_to_app never and has run no step of the brew pipeline.
C14_MissingBodyRejected ==
    \A w \in Threads :
       (th[w].ep \in {"order", "submit"} /\ th[w].pc = "done"
        /\ th[w].limited = "False" /\ th[w].resp.code \notin {401, 403}
        /\ th[w].body.json = "none")
       => /\ th[w].resp.code = 400
          /\ th[w].log = <<>>
          /\ th[w].attempts = 0
          /\ th[w].orders = Absent
          /\ th[w].i = 0

(***************************************************************************)
(* C13                                                                     *)
(***************************************************************************)
\* C13, the state part: a request to /status/<user_id>/<order_id> or /health
\* never goes through is_rate_limited and is never answered 429; with
\* requests handled one at a time every client's window is as it was when
\* the request arrived; /health is answered 200 and an authenticated
\* /status request with a JSON object 200, however full the window is.
C13_NeverLimited ==
    \A w \in Threads :
       th[w].ep \in {"status", "health"} =>
          /\ th[w].limited = "none"
          /\ th[w].resp.code # 429
          /\ workers = 1 => request_counts = th[w].rc0
          /\ th[w].ep = "health" => th[w].resp.code = 200
          /\ (th[w].pc = "done" /\ Authenticated(th[w].hdr)
              /\ th[w].body.json = "object") => th[w].resp.code = 200

\* C13, the step part: no step of such a request changes a window.
C13_WindowsUntouched ==
    \A w \in Threads :
       (th'[w] # th[w]
        /\ (th[w].ep \in {"status", "health"} \/ th'[w].ep \in {"status", "health"}))
       => /\ request_counts' = request_counts
          /\ admitted' = admitted

\* C13: /status and /health are never rate limited and leave every
\* client's window unchanged.
C13_NotRateLimited == [](C13_NeverLimited) /\ [][C13_WindowsUntouched]_vars

\* a /status request answered 200 while its client's window holds ten
\* timestamps less than a minute old
C13_Witness ==
    \E w \in Threads :
       /\ th[w].ep = "status" /\ th[w].pc = "done" /\ th[w].resp.code = 200
       /\ Len(request_counts[th[w].ip]) = MAX_REQUESTS_PER_MINUTE
       /\ \A k \in 1..Len(request_counts[th[w].ip]) :
             clock - request_counts[th[w].ip][k] < Window

(***************************************************************************)
(* C15                                                                     *)
(***************************************************************************)
\* a text with at least one symbol, none of them empty
NonEmptyText(text) == text # <<>> /\ \A k \in 1..Len(text) : text[k] # ""

\* C15: an order id generated for a body without orderId is a non-empty
\* string, is the id the request publishes under and returns, and two ids
\* generated more than one second apart differ.
C15_GeneratedIds ==
    /\ \A k \in 1..Len(issued) :
          issued[k].id.t = "str" /\ NonEmptyText(issued[k].id.s)
    /\ \A j, k \in 1..Len(issued) :
          issued[k].t - issued[j].t > TicksPerSecond => issued[j].id # issued[k].id
    /\ \A w \in Threads :
          (InPipeline(th[w]) /\ th[w].body.orderId.t = "absent") =>
             /\ issued # <<>>
             /\ th[w].order_id = issued[Len(issued)].id
             /\ \A k \in 1..Len(th[w].log) : th[w].log[k].order_id = th[w].order_id
             /\ th[w].pc = "done" => th[w].resp.order_id = th[w].order_id

\* the second of two orders without orderId, answered with an id generated
\* more than a second after the first one's
C15_Witness ==
    \E w \in Threads :
       /\ th[w].ep = "order" /\ th[w].pc = "done" /\ th[w].resp.code = 200
       /\ th[w].body.orderId.t = "absent"
       /\ Len(issued) = 2
       /\ issued[2].t - issued[1].t > TicksPerSecond
       /\ th[w].resp.order_id = issued[2].id

(***************************************************************************)
(* C16                                                                     *)
(***************************************************************************)
\* C16: on the rate-limited routes, with requests handled one at a time, a
\* request that finds ten timestamps less than a minute old in its client's
\* window is answered 429 whatever its Authorization header, the right key
\* included; and a request answered 401 was admitted first and stays
\* recorded: its client's window is the pruned window on arrival followed
\* by the request's own timestamp.
C16_LimiterBeforeAuth ==
    workers = 1 =>
       \A w \in Threads :
          th[w].ep \in RateLimitedEndpoints =>
             /\ th[w].limited = "True" =>
                   (th[w].pc = "done" /\ th[w].resp.code = 429)
             /\ (th[w].limited # "none"
                 /\ Len(Prune(th[w].rc0[th[w].ip], th[w].now)) = MAX_REQUESTS_PER_MINUTE)
                => (th[w].limited = "True" /\ th[w].resp.code = 429)
             /\ th[w].resp.code \in {401, 403, 200, 400, 500} => th[w].limited = "False"
             /\ th[w].resp.code = 401 =>
                   request_counts[th[w].ip] =
                      Append(Prune(th[w].rc0[th[w].ip], th[w].now), th[w].now)

\* a client's request with the right key answered 429, after ten requests
\* of that client without it, each answered 401, filled its window
C16_Witness ==
    \E w \in Threads :
       /\ traffic = "flood"
       /\ th[w].ep \in RateLimitedEndpoints
       /\ th[w].hdr = ExactHeader
       /\ th[w].limited = "True" /\ th[w].resp.code = 429
       /\ budget.requests[th[w].ip] = 0
       /\ Len(admitted[th[w].ip]) = MAX_REQUESTS_PER_MINUTE

(***************************************************************************)
(* C17                                                                     *)
(***************************************************************************)
\* how often a timestamp occurs in a list
Count(list, t) == Cardinality({k \in 1..Len(list) : list[k] = t})

\* C17: in every reachable state, interleaved handlers included, a client's
\* window holds at most 10 timestamps and holds the timestamp of each of
\* its admitted requests that is less than a minute old.
C17_BoundUnderInterleaving ==
    \A c \in Clients :
       /\ Len(request_counts[c]) <= MAX_REQUESTS_PER_MINUTE
       /\ \A k \in 1..Len(admitted[c]) :
             clock - admitted[c][k] < Window =>
                Count(request_counts[c], admitted[c][k]) >= Count(admitted[c], admitted[c][k])

(***************************************************************************)
(* C18                                                                     *)
(***************************************************************************)
\* C18, the safety part: the success response to an order exists only when
\* the handler is done, after ready or error was published as the last
\* status, and never while an item is still to be brewed: either every
\* item was brewed or an exception ended the loop.
C18_NoEarlyResponse ==
    \A w \in Threads :
       th[w].ep = "order" =>
          /\ th[w].pc \in {"trigger", "loop", "sleep", "error", "respond"}
             => th[w].resp = NoResp
          /\ th[w].resp.code = 200 =>
                /\ th[w].pc = "done"
                /\ th[w].log # <<>>
                /\ LastStatus(th[w].log) \in {<<"ready">>, <<"error">>}
                /\ LastStatus(th[w].log) = <<"ready">> <=> th[w].exc = <<>>
                /\ th[w].exc = <<>> => th[w].i = PyLen(th[w].orders)

\* C18, the progress part: an accepted order whose handler runs on reaches
\* ready or error and is then answered 200.
C18_Terminates ==
    \A w \in Threads :
       (InPipeline(th[w]) /\ th[w].pc # "done")
       ~> (th[w].ep = "order" /\ th[w].pc = "done" /\ th[w].resp.code = 200
           /\ LastStatus(th[w].log) \in {<<"ready">>, <<"error">>})

\* C18: when every call to the store returns, an accepted order reaches a
\* terminal pipeline state and then its response, and the response never
\* comes while an item is still to be brewed.
C18_PipelineTerminates == [](C18_NoEarlyResponse) /\ C18_Terminates

\* an order of two drinks answered after both were brewed and ready was
\* published, some writes to the store having failed
C18_Witness ==
    \E w \in Threads :
       /\ th[w].ep = "order" /\ th[w].pc = "done" /\ th[w].resp.code = 200
       /\ th[w].i = 2 /\ PyLen(th[w].orders) = 2
       /\ LastStatus(th[w].log) = <<"ready">>
       /\ th[w].failed > 0

(***************************************************************************)
(* C19                                                                     *)
(***************************************************************************)
\* C19, the state part: an authenticated, admitted /submit-number request
\* whose body is a non-empty object is answered 200 after exactly one
\* send_status_to_app call, with status completed, under the key of the
\* body's userId and orderId, whatever the store held under that key; a
\* /submit-number request answered otherwise made no call.
C19_OneCompleted ==
    \A w \in Threads :
       (th[w].ep = "submit" /\ th[w].pc = "done") =>
          /\ (th[w].limited = "False" /\ Authenticated(th[w].hdr)
              /\ th[w].body.json = "object" /\ th[w].body # EmptyObject)
             => /\ th[w].resp.code = 200
                /\ Len(th[w].log) = 1
                /\ th[w].log[1].status = S("completed")
                /\ th[w].log[1].path =
                      StatusPath(Get(th[w].body, "userId", Unknown),
                                 Get(th[w].body, "orderId", Unknown))
                /\ th[w].attempts <= 1
          /\ th[w].resp.code # 200 => th[w].log = <<>>

\* C19, the step part: a send_status_to_app call whose write goes through
\* leaves the call's record under its key, whatever record was there, and
\* leaves the other keys alone.
C19_LastWriteWins ==
    \A w \in Threads :
       (Len(th'[w].log) = Len(th[w].log) + 1 /\ th'[w].ret = "True") =>
          LET e == th'[w].log[Len(th'[w].log)]
          IN store' = (e.path :> StatusData(e.order_id, e.status, e.message)) @@ store

\* C19: /submit-number publishes one completed status, unconnected to the
\* pipeline's statuses under the same key; the last write wins.
C19_UnguardedCompleted == [](C19_OneCompleted) /\ [][C19_LastWriteWins]_vars

\* completed was written while the pipeline of an order with the same key
\* was brewing, and the pipeline's next write replaced it
C19_Witness ==
    \E v, w \in Threads :
       /\ th[v].ep = "submit" /\ th[v].pc = "done" /\ th[v].ret = "True"
       /\ th[v].found = S("brewing")
       /\ th[w].ep = "order" /\ th[w].log # <<>>
       /\ th[w].log[Len(th[w].log)].path = th[v].log[1].path
       /\ th[w].found = S("completed")
       /\ LastStatus(th[w].log) \in {<<"brewing">>, <<"ready">>}
       /\ store[th[v].log[1].path].status.s = LastStatus(th[w].log)

=============================================================================
